---- MODULE Spec2Model ----
(***************************************************************************)
(* Model of the OHCR discourse-coach front end: the App upload flow        *)
(* (src/frontend/src/App.jsx), the Dashboard component with its            *)
(* utterance retrieval effect (src/unnamed/part_001, and the variant       *)
(* without a staleness guard in src/unnamed/part_000) and the Timeline     *)
(* layout.                                                                 *)
(*                                                                         *)
(* Conventions.                                                            *)
(*  - An optional JSON field is a sequence: <<>> when the key is absent,   *)
(*    <<v>> when it is present with value v.                               *)
(*  - Times are integers counting ticks of 1/TimeScale second, so that     *)
(*    sub-second spans exist.  Percentages are exact fractions             *)
(*    [num, den] with den > 0; binary floating-point rounding of the       *)
(*    division is not modelled.                                            *)
(*  - A metric ratio is an integer counting 1/10000, so that ratio * 100  *)
(*    is the same integer counting 1/100.  Where the decimal value lies    *)
(*    exactly half-way between two results of toFixed, the result depends  *)
(*    on the binary representation of the product and either neighbour is  *)
(*    taken.                                                               *)
(*  - A React commit (new props, effect cleanup, effect run, re-render of  *)
(*    the children) is one step.                                           *)
(***************************************************************************)
EXTENDS Integers, Sequences, FiniteSets, TLC

VARIABLES
  file,        \* App: useState(null)  - the chosen file, <<>> or <<name>>
  session,     \* App: useState(null)  - the last upload's parsed body
  loading,     \* App: useState(false)
  error,       \* App: useState("")
  uploads,     \* upload requests in flight (fetch POST awaiting its response)
  attempts,    \* number of upload() invocations so far
  impl,        \* which Dashboard file is mounted: "part_001" or "part_000"
  instance,    \* number of Dashboard instances mounted so far
  utterances,  \* Dashboard: useState([]) of the mounted instance
  view,        \* what <Timeline utterances={utterances}/> rendered last
  inflight,    \* retrievals awaiting their response: [id, sid, inst, ignore]
  nextId,      \* retrievals issued so far (the last one's id)
  live,        \* id of the retrieval whose cleanup the last effect run registered (0: none)
  writes,      \* writes[id]: setUtterances calls made by retrieval id's handlers
  unhandled,   \* a promise of a retrieval chain rejected with no handler
  settled,     \* the retrieval that settled last: its id and sessionId, whether
               \* it was the current one, whether its Dashboard instance was
               \* torn down, and its outcome
  crashed,     \* a render raised: React unmounted the root
  lastUpload,  \* the response of the upload request that ended last
  data,        \* Dashboard: the metrics of its data prop, <<>> when unmounted
  metrics      \* Dashboard: the (label, value) pairs rendered as metric tiles

vars == <<file, session, loading, error, uploads, attempts, impl, instance,
          utterances, view, inflight, nextId, live, writes, unhandled, settled,
          crashed, lastUpload, data, metrics>>

-----------------------------------------------------------------------------
(* Bounds *)

MaxUploads == 3     \* upload() invocations (each retrieval follows an upload)
MaxLen == 2         \* utterances in a retrieved sequence
MaxTime == 2        \* largest timestamp, in ticks
TimeScale == 2      \* ticks per second

-----------------------------------------------------------------------------
(* JavaScript values *)

None == <<>>
Some(x) == <<x>>

Max(a, b) == IF a >= b THEN a ELSE b
Min(a, b) == IF a <= b THEN a ELSE b

\* Exact fractions for the percentages computed by Timeline.
Rat(n, d) == [num |-> n, den |-> d]
RatLeq(a, b) == a.num * b.den <= b.num * a.den
RatEq(a, b) == a.num * b.den = b.num * a.den
RatMax(a, b) == IF RatLeq(b, a) THEN a ELSE b     \* Math.max on two numbers

SessionIds == {"A", "B"}
\* The falsy values a session_id can take: "", null, undefined (key absent).
FalsyIds == {"", "<null>", "<undefined>"}
IsFalsyId_Never(sid) == FALSE
IsFalsyId(sid) == sid \in FalsyIds                 \* !sessionId

\* The discourse codes used as inputs: the four known ones, the legend's "?",
\* an unknown letter, a lowercase letter, a multi-character value and "".
KnownCodes == {"O", "H", "C", "R"}
Codes == KnownCodes \cup {"?", "X", "o", "OH", ""}

\* String.prototype.toUpperCase on the codes above.
toUpperCase(s) == IF s = "o" THEN "O" ELSE s

\* Number.prototype.toFixed(1) of t ticks (t / TimeScale seconds), t >= 0:
\* the value rounded to tenths, written with exactly one decimal.
toFixed1(t) ==
  LET tenths == (20 * t + TimeScale) \div (2 * TimeScale)
  IN  ToString(tenths \div 10) \o "." \o ToString(tenths % 10)

-----------------------------------------------------------------------------
(* Timeline (part_001, lines 96-148) *)

\* An utterance record as parsed from JSON; every field is optional.
Utterance(id, ts, te, code) == [u_id |-> id, t_start |-> ts, t_end |-> te, ohcr |-> code]

\* The value of j.utterances, and of the `utterances` state when truthy.
\* kind "array" is an array of records (items); the other kinds are the
\* truthy values that are not arrays: a non-empty string, a non-zero number,
\* a plain object; kind "falsy" is null, 0, "" or false.  sid names the session the server produced the value for.
UVal(k, its, s) == [kind |-> k, items |-> its, sid |-> s]
EmptyArray == UVal("array", <<>>, "")
MalformedKinds == {"string", "number", "object"}

OrZero(opt) == IF opt = None THEN 0 ELSE opt[1]     \* x || 0 on a number field

RECURSIVE MathMin(_)
MathMin(xs) == IF Len(xs) = 1 THEN xs[1] ELSE Min(xs[1], MathMin(Tail(xs)))
RECURSIVE MathMax(_)
MathMax(xs) == IF Len(xs) = 1 THEN xs[1] ELSE Max(xs[1], MathMax(Tail(xs)))

\* line 101: utterances.some((u) => "ohcr" in u)
hasOHCR(us) == \E i \in 1..Len(us) : us[i].ohcr # None

\* line 106, and the bug of taking the first utterance's start instead
TimelineStart_First(us) == OrZero(us[1].t_start)
TimelineStart(us) == MathMin([i \in 1..Len(us) |-> OrZero(us[i].t_start)])
\* line 107
TimelineEnd(us) == MathMax([i \in 1..Len(us) |-> OrZero(us[i].t_end)])
\* line 108: Math.max(1, end - start); one second is TimeScale ticks; and the
\* same without the floor of 1
TimelineDuration_NoFloor(us) == TimelineEnd(us) - TimelineStart(us)
TimelineDuration(us) == Max(TimeScale, TimelineEnd(us) - TimelineStart(us))

\* line 124: u.ohcr || "?"
SegmentTag(u) == IF u.ohcr = None \/ u.ohcr[1] = "" THEN "?" ELSE u.ohcr[1]
\* line 125: tag && tag !== "?" ? tag : "unknown"
SegmentTagClass(u) ==
  LET tag == SegmentTag(u) IN IF tag # "" /\ tag # "?" THEN tag ELSE "unknown"
\* lines 122 and 131: Math.max(((u.t_end - u.t_start) / duration) * 100, 0.8),
\* the same without the floor, and the same flooring the magnitude
SegmentWidth_NoFloor(u, duration) == Rat(100 * (u.t_end[1] - u.t_start[1]), duration)
SegmentWidth_Abs(u, duration) ==
  RatMax(Rat(100 * Max(u.t_end[1] - u.t_start[1], u.t_start[1] - u.t_end[1]), duration),
         Rat(8, 10))
SegmentWidth(u, duration) ==
  RatMax(Rat(100 * (u.t_end[1] - u.t_start[1]), duration), Rat(8, 10))
\* line 123: ((u.t_start - start) / duration) * 100
SegmentOffset(u, start, duration) == Rat(100 * (u.t_start[1] - start), duration)

\* lines 121-135, the map callback.  With t_start or t_end absent the
\* subtraction gives NaN and the title's u.t_start.toFixed(1) /
\* u.t_end.toFixed(1) raises a TypeError on undefined, so no element is built.
SegmentRaises(u) == u.t_start = None \/ u.t_end = None
Segment(u, index, start, duration) ==
  [ key   |-> <<IF u.u_id = None \/ u.u_id[1] = "" THEN ToString(index) ELSE u.u_id[1],
                SegmentTag(u), u.t_start[1]>>,
    cls   |-> SegmentTagClass(u),
    left  |-> SegmentOffset(u, start, duration),
    width |-> SegmentWidth(u, duration),
    title |-> <<toUpperCase(SegmentTag(u)), toFixed1(u.t_start[1]), toFixed1(u.t_end[1])>> ]

TimelineView(st, segs, err) == [state |-> st, segments |-> segs, error |-> err]
NotRendered == TimelineView("Unmounted", <<>>, "")

\* The whole component: what it returns, or that it raised.
Timeline(uv) ==
  IF uv.kind = "falsy" \/ (uv.kind = "array" /\ Len(uv.items) = 0)
    THEN TimelineView("NoData", <<>>, "")                                 \* lines 97-99
  ELSE IF uv.kind \in MalformedKinds
    THEN TimelineView("Raised", <<>>, "TypeError")   \* line 101: .some is not a function
  ELSE IF ~hasOHCR(uv.items)
    THEN TimelineView("NoSequences", <<>>, "")                            \* lines 102-104
  ELSE IF \E i \in 1..Len(uv.items) : SegmentRaises(uv.items[i])
    THEN TimelineView("Raised", <<>>, "TypeError")                        \* line 132
  ELSE LET start == TimelineStart(uv.items)
           duration == TimelineDuration(uv.items)
       IN  TimelineView("Rendered",
                        [i \in 1..Len(uv.items) |->
                           Segment(uv.items[i], i - 1, start, duration)],
                        "")

\* part_000, line 68: the colour lookup with its grey default
color(tag) ==
  CASE tag = "O" -> "#2563eb"
    [] tag = "H" -> "#10b981"
    [] tag = "C" -> "#f59e0b"
    [] tag = "R" -> "#ef4444"
    [] OTHER     -> "#9ca3af"

-----------------------------------------------------------------------------
(* App (App.jsx) *)

\* The parsed body of an upload response, kept in `session`.  summary is
\* whether session?.summary is truthy; session_id may be falsy.
SessionData(n, s, i) == [isNull |-> n, summary |-> s, session_id |-> i]
NullSession == SessionData(TRUE, FALSE, "<undefined>")
SessionBodies ==
  {NullSession} \cup
  {SessionData(FALSE, s, i) : s \in BOOLEAN, i \in SessionIds \cup FalsyIds}

\* line 86: {session?.summary && (... <Dashboard .../> ...)}
RendersDashboard(s) == ~s.isNull /\ s.summary
DashboardMounted == RendersDashboard(session) /\ ~crashed

UploadOutcome(r, m, d) == [result |-> r, message |-> m, data |-> d]
UploadOutcomes ==
  {UploadOutcome("reject", "Failed to fetch", NullSession)} \cup      \* fetch rejects
  {UploadOutcome("notok", t, NullSession) : t \in {"", "Bad file"}} \cup  \* line 23
  {UploadOutcome("badjson", "Unexpected token", NullSession)} \cup    \* line 24 rejects
  {UploadOutcome("data", "", d) : d \in SessionBodies}                \* lines 24-25
NoUpload == UploadOutcome("none", "", NullSession)

\* line 27: e?.message || "Upload failed", and the message taken as it is.
ErrorMessage_Raw(o) == o.message
ErrorMessage(o) == IF o.message = "" THEN "Upload failed" ELSE o.message

\* line 72: <button ... disabled={loading}>, and a button never disabled.
ButtonDisabled_Never == FALSE
ButtonDisabled == loading

-----------------------------------------------------------------------------
(* Dashboard: the metric tiles (part_001 lines 36-43) *)

Abs(x) == IF x < 0 THEN -x ELSE x
RECURSIVE Pow10(_)
Pow10(n) == IF n = 0 THEN 1 ELSE 10 * Pow10(n - 1)

\* The digits of n as a numeral with d decimals: Digits(873, 1) = "87.3".
RECURSIVE Fraction(_, _)
Fraction(n, d) ==
  IF d = 0 THEN ""
  ELSE Fraction(n \div 10, d - 1) \o ToString(n % 10)
Digits(n, d) ==
  ToString(n \div Pow10(d)) \o (IF d = 0 THEN "" ELSE "." \o Fraction(n % Pow10(d), d))

\* Number.prototype.toFixed(d) on x counted in 1/100, d <= 2: the sign, then
\* the magnitude rounded to d decimals; `up` is the neighbour taken at a
\* tie.  Beside it, a toFixed that truncates.
toFixed_Truncating(x, d, up) ==
  (IF x < 0 THEN "-" ELSE "") \o Digits(Abs(x) \div Pow10(2 - d), d)
toFixed(x, d, up) ==
  LET step == Pow10(2 - d)
      q    == Abs(x) \div step
      rem  == Abs(x) % step
      n    == IF 2 * rem > step \/ (2 * rem = step /\ up) THEN q + 1 ELSE q
  IN  (IF x < 0 THEN "-" ELSE "") \o Digits(n, d)

Metrics(kc, oi, ad, st, l5, md) ==
  [kc_score |-> kc, ohcr_index |-> oi, avg_hc_depth |-> ad,
   student_talk_pct |-> st, level5_pct |-> l5, max_hc_depth |-> md]
Metric(l, v) == [label |-> l, value |-> v]

\* part_001 lines 36-43; ties[i] is the neighbour toFixed takes for tile i.
MetricTiles(m, ties) ==
  << Metric("KC Score", toFixed(m.kc_score, 1, ties[1]) \o "%"),
     Metric("OHCR Coverage", toFixed(m.ohcr_index, 1, ties[2]) \o "%"),
     Metric("Avg HC-Depth", m.avg_hc_depth),
     Metric("Student Talk", toFixed(m.student_talk_pct, 0, ties[4]) \o "%"),
     Metric("Level-5 Presence", toFixed(m.level5_pct, 0, ties[5]) \o "%"),
     Metric("Max HC-Depth", m.max_hc_depth) >>
Ties == [{1, 2, 4, 5} -> BOOLEAN]

\* The summary every upload of the App model answers with; none of its
\* values lies half-way, so the neighbour taken at a tie plays no part.
SampleMetrics == Metrics(8730, 5000, 2, 6670, 1000, 5)
SampleTiles == MetricTiles(SampleMetrics, [i \in {1, 2, 4, 5} |-> FALSE])

-----------------------------------------------------------------------------
(* Dashboard: the retrieval effect *)

Request(i, s, n, g) == [id |-> i, sid |-> s, inst |-> n, ignore |-> g]

\* part_001 lines 14-17 return before fetching when !sessionId;
\* part_000 lines 8-12 always fetch.
EffectFetches(sid) == IF impl = "part_001" THEN ~IsFalsyId(sid) ELSE TRUE

\* part_001 lines 31-33: the cleanup sets the closure's ignore flag, and the
\* same effect without a cleanup.  part_000 registers no cleanup.
EffectCleanup_None(reqs) == reqs
EffectCleanup(reqs) ==
  IF impl = "part_001"
    THEN {IF r.id = live THEN [r EXCEPT !.ignore = TRUE] ELSE r : r \in reqs}
    ELSE reqs

\* A commit of App with `new` as the session: Dashboard is mounted, updated
\* or unmounted, its effect cleaned up and re-run when sessionId changed
\* (dependency list [sessionId]), and Timeline re-rendered.
Commit(new) ==
  LET wasMounted == RendersDashboard(session)
      isMounted  == RendersDashboard(new)
      rerun      == isMounted /\ (~wasMounted \/ new.session_id # session.session_id)
      cleanup    == wasMounted /\ (~isMounted \/ rerun)
      fetches    == rerun /\ EffectFetches(new.session_id)
      inst       == IF isMounted /\ ~wasMounted THEN instance + 1 ELSE instance
      utt        == IF ~isMounted \/ ~wasMounted THEN EmptyArray     \* useState([])
                    ELSE IF rerun /\ ~fetches THEN EmptyArray        \* part_001 line 15
                    ELSE utterances
  IN  /\ session' = new
      /\ instance' = inst
      /\ nextId' = IF fetches THEN nextId + 1 ELSE nextId
      /\ inflight' = (IF cleanup THEN EffectCleanup(inflight) ELSE inflight)
                       \cup (IF fetches
                               THEN {Request(nextId + 1, new.session_id, inst, FALSE)}
                               ELSE {})
      /\ live' = IF ~isMounted THEN 0
                 ELSE IF rerun
                   THEN (IF fetches /\ impl = "part_001" THEN nextId + 1 ELSE 0)
                 ELSE live
      /\ utterances' = utt
      /\ view' = IF isMounted THEN Timeline(utt) ELSE NotRendered
      /\ data' = IF isMounted THEN Some(SampleMetrics) ELSE None
      /\ metrics' = IF isMounted THEN SampleTiles ELSE <<>>
      /\ UNCHANGED <<impl, writes, unhandled, settled, crashed>>

\* The outcome of a retrieval: the transport result and the response body.
FetchOutcome(t, b, v) == [transport |-> t, body |-> b, val |-> v]
Falsy == UVal("falsy", <<>>, "")        \* utterances: null, 0, "" or false

\* The utterances the server holds for a session.
SampleUtterances(sid) ==
  UVal("array",
       << Utterance(Some(sid \o "-1"), Some(0), Some(1), Some("O")),
          Utterance(Some(sid \o "-2"), Some(1), Some(2), Some("H")) >>,
       sid)

FieldValues(sid) ==
  {Falsy, EmptyArray, SampleUtterances(sid)} \cup {UVal(k, <<>>, sid) : k \in MalformedKinds}

FetchOutcomes(sid) ==
  {FetchOutcome("reject", "none", Falsy)} \cup
  {FetchOutcome(t, b, Falsy) : t \in {"ok", "notok"}, b \in {"unparseable", "null", "nofield"}} \cup
  {FetchOutcome(t, "field", v) : t \in {"ok", "notok"}, v \in FieldValues(sid)}

\* The retrieval issued by the effect run that is in force: by the mounted
\* instance, for the sessionId it now has, with no later effect run.
IsCurrent(r) ==
  /\ DashboardMounted
  /\ r.inst = instance
  /\ r.id = nextId
  /\ r.sid = session.session_id

Settlement(r, o) ==
  [id |-> r.id, sid |-> r.sid, current |-> IsCurrent(r),
   torn |-> ~(DashboardMounted /\ r.inst = instance), outcome |-> o]
NoneSettled ==
  [id |-> 0, sid |-> "", current |-> FALSE, torn |-> FALSE,
   outcome |-> FetchOutcome("none", "none", Falsy)]

\* Whether the chain ends in a rejection: fetch rejected, r.json() rejected,
\* or j.utterances raised on a null body (evaluated only when the handler
\* gets past its ignore test; part_000 has no such test).
ChainRejects(r, o) ==
  \/ o.transport = "reject"
  \/ o.body = "unparseable"
  \/ o.body = "null" /\ ~(impl = "part_001" /\ r.ignore)

\* j.utterances || [], and the same dropping a record equal to its predecessor
UtterancesOrEmpty_Dedup(o) ==
  IF o.body = "nofield" \/ o.val.kind = "falsy" THEN EmptyArray
  ELSE IF Len(o.val.items) >= 2 /\ o.val.items[1] = o.val.items[2]
    THEN [o.val EXCEPT !.items = Tail(o.val.items)]
  ELSE o.val
UtterancesOrEmpty(o) ==
  IF o.body = "nofield" \/ o.val.kind = "falsy" THEN EmptyArray ELSE o.val

\* part_001 lines 23 and 28: if (!ignore); part_000 has no guard.  Beside it,
\* a handler that ignores the flag.
HandlerCommits_Always(r) == TRUE
HandlerCommits(r) == IF impl = "part_001" THEN ~r.ignore ELSE TRUE

\* The value a settled retrieval passes to setUtterances, <<>> when it calls
\* nothing.  part_001: .then (lines 22-26) or .catch (lines 27-29);
\* part_000: .then (line 11) only.
HandlerWrite(r, o) ==
  IF ~HandlerCommits(r) THEN None
  ELSE IF ChainRejects(r, o)
    THEN (IF impl = "part_001" THEN Some(EmptyArray) ELSE None)
  ELSE Some(UtterancesOrEmpty(o))

-----------------------------------------------------------------------------
(* Actions *)

Init001 ==
  /\ file = None
  /\ session = NullSession
  /\ loading = FALSE
  /\ error = ""
  /\ uploads = 0
  /\ attempts = 0
  /\ instance = 0
  /\ utterances = EmptyArray
  /\ view = NotRendered
  /\ inflight = {}
  /\ nextId = 0
  /\ live = 0
  /\ writes = [i \in 1..MaxUploads |-> 0]
  /\ unhandled = FALSE
  /\ settled = NoneSettled
  /\ crashed = FALSE
  /\ lastUpload = NoUpload
  /\ data = None
  /\ metrics = <<>>

Init == Init001 /\ impl = "part_001"
InitLegacy == Init001 /\ impl = "part_000"

dashVars == <<impl, instance, utterances, view, inflight, nextId, live, writes,
              unhandled, settled, crashed, data, metrics>>

\* handleFileChange (App.jsx lines 33-35)
ChooseFile ==
  /\ ~crashed
  /\ \E f \in {None, Some("lesson.mp3")} : f # file /\ file' = f
  /\ UNCHANGED <<session, loading, error, uploads, attempts, lastUpload>>
  /\ UNCHANGED dashVars

\* upload() up to its await (App.jsx lines 13-22); the button is disabled
\* while loading (line 72)
UploadClick ==
  /\ ~crashed
  /\ ~ButtonDisabled
  /\ attempts < MaxUploads
  /\ attempts' = attempts + 1
  /\ IF file = None
       THEN /\ loading' = FALSE               \* alert, then finally
            /\ UNCHANGED <<error, uploads>>
       ELSE /\ error' = ""
            /\ loading' = TRUE
            /\ uploads' = uploads + 1
  /\ UNCHANGED <<file, session, lastUpload>>
  /\ UNCHANGED dashVars

\* upload() from the response on (App.jsx lines 22-30)
UploadSettle ==
  /\ uploads > 0
  /\ uploads' = uploads - 1
  /\ \E o \in UploadOutcomes :
       /\ lastUpload' = o
       /\ IF crashed
            THEN UNCHANGED <<loading, error, session>> /\ UNCHANGED dashVars
          ELSE IF o.result = "data"
            THEN /\ Commit(o.data)
                 /\ loading' = FALSE
                 /\ UNCHANGED error
            ELSE /\ error' = ErrorMessage(o)
                 /\ loading' = FALSE
                 /\ UNCHANGED session
                 /\ UNCHANGED dashVars
  /\ UNCHANGED <<file, attempts>>

\* A retrieval settles with outcome o and its handlers run; a write
\* re-renders Timeline, and a render that raises unmounts the root.
FetchSettle(r, o) ==
  LET w       == HandlerWrite(r, o)
      applies == w # None /\ DashboardMounted /\ r.inst = instance
      v       == IF applies THEN Timeline(w[1]) ELSE view
      crash   == applies /\ v.state = "Raised"
      rest    == inflight \ {r}
  IN  /\ r \in inflight
      /\ writes' = IF w # None THEN [writes EXCEPT ![r.id] = @ + 1] ELSE writes
      /\ unhandled' = (unhandled \/ (impl = "part_000" /\ ChainRejects(r, o)))
      /\ settled' = Settlement(r, o)
      /\ utterances' = IF applies THEN w[1] ELSE utterances
      /\ view' = v
      /\ crashed' = (crashed \/ crash)
      /\ inflight' = IF crash THEN EffectCleanup(rest) ELSE rest
      /\ live' = IF crash \/ r.id = live THEN 0 ELSE live
      /\ data' = IF crash THEN None ELSE data
      /\ metrics' = IF crash THEN <<>> ELSE metrics
      /\ UNCHANGED <<file, session, loading, error, uploads, attempts, impl,
                     instance, nextId, lastUpload>>

FetchResponse == \E r \in inflight : \E o \in FetchOutcomes(r.sid) : FetchSettle(r, o)

Next == ChooseFile \/ UploadClick \/ UploadSettle \/ FetchResponse

Spec == Init /\ [][Next]_vars
\* Every retrieval in flight eventually settles (with data or a failure).
SpecLive == Init /\ [][Next]_vars /\ WF_vars(FetchResponse)
SpecLegacy == InitLegacy /\ [][Next]_vars

-----------------------------------------------------------------------------
(* Timeline over a larger input domain: Dashboard is mounted for session   *)
(* "A" and its one retrieval answers with any bounded utterance sequence.  *)

Times == 0..MaxTime
OptTimes == {None} \cup {Some(t) : t \in Times}

\* Records varying the timestamps (present or absent) with the code present
\* or absent, and records varying the code over fixed timestamps.
TimedRecords ==
  {Utterance(None, ts, te, c) : ts \in OptTimes, te \in OptTimes, c \in {None, Some("O")}}
CodedRecords ==
  {Utterance(None, Some(0), Some(1), Some(c)) : c \in Codes}
UtteranceRecords == TimedRecords \cup CodedRecords

UtteranceSeqs == UNION {[1..n -> UtteranceRecords] : n \in 0..MaxLen}

TimelineOutcomes ==
  {FetchOutcome("ok", "field", IF us = <<>> THEN EmptyArray ELSE UVal("array", us, "A")) :
     us \in UtteranceSeqs}

\* The state after a first upload answered with session "A" and a summary.
InitTimeline ==
  /\ file = Some("lesson.mp3")
  /\ session = SessionData(FALSE, TRUE, "A")
  /\ loading = FALSE
  /\ error = ""
  /\ uploads = 0
  /\ attempts = 1
  /\ impl = "part_001"
  /\ instance = 1
  /\ utterances = EmptyArray
  /\ view = Timeline(EmptyArray)
  /\ inflight = {Request(1, "A", 1, FALSE)}
  /\ nextId = 1
  /\ live = 1
  /\ writes = [i \in 1..MaxUploads |-> 0]
  /\ unhandled = FALSE
  /\ settled = NoneSettled
  /\ crashed = FALSE
  /\ lastUpload = UploadOutcome("data", "", SessionData(FALSE, TRUE, "A"))
  /\ data = Some(SampleMetrics)
  /\ metrics = SampleTiles

TimelineResponse == \E r \in inflight : \E o \in TimelineOutcomes : FetchSettle(r, o)

SpecTimeline == InitTimeline /\ [][TimelineResponse]_vars

-----------------------------------------------------------------------------
(* The metric tiles over a larger input domain: Dashboard is about to      *)
(* render with any summary of the bounded domain.                          *)

\* Ratios in 1/10000: negative, zero, rounding down and up, half-way at one
\* and at zero decimals, the values of the documented example, above 1.
RatioSamples == {-250, -4, 0, 44, 1450, 5000, 6670, 8730, 8735, 9996, 10000, 12345}
MetricsInputs ==
  {Metrics(kc, oi, ad, st, l5, md) :
     kc \in RatioSamples, oi \in {5000, 8735, 12345}, ad \in {0, 2},
     st \in RatioSamples, l5 \in {-250, 1000}, md \in {5}}

\* Dashboard mounted for session "A" with a summary of the domain, its
\* metric tiles not computed yet.
InitMetrics ==
  /\ file = Some("lesson.mp3")
  /\ session = SessionData(FALSE, TRUE, "A")
  /\ loading = FALSE
  /\ error = ""
  /\ uploads = 0
  /\ attempts = 1
  /\ impl = "part_001"
  /\ instance = 1
  /\ utterances = EmptyArray
  /\ view = Timeline(EmptyArray)
  /\ inflight = {Request(1, "A", 1, FALSE)}
  /\ nextId = 1
  /\ live = 1
  /\ writes = [i \in 1..MaxUploads |-> 0]
  /\ unhandled = FALSE
  /\ settled = NoneSettled
  /\ crashed = FALSE
  /\ lastUpload = UploadOutcome("data", "", SessionData(FALSE, TRUE, "A"))
  /\ data \in {Some(m) : m \in MetricsInputs}
  /\ metrics = <<>>

MetricsRender ==
  /\ DashboardMounted
  /\ data # None
  /\ metrics = <<>>
  /\ \E ties \in Ties : metrics' = MetricTiles(data[1], ties)
  /\ UNCHANGED <<file, session, loading, error, uploads, attempts, impl, instance,
                 utterances, view, inflight, nextId, live, writes, unhandled,
                 settled, crashed, lastUpload, data>>

SpecMetrics == InitMetrics /\ [][MetricsRender]_vars

-----
(* Claims *)

\* The step settles a retrieval (ids are unique and settle once).
Settles == settled'.id # settled.id
\* Retrieval 1 of the Timeline specification has been answered and committed.
Committed == writes[1] = 1 /\ inflight = {}

\* C1: a response to a retrieval that is not the current one (its sessionId
\* was replaced, or a later effect run superseded it) never changes the
\* utterance state, whatever the arrival order.  (Stated for the responses
\* with an OK status.)
C1_StaleResponseNeverWrites ==
  [][(Settles /\ ~settled'.current /\ settled'.outcome.transport = "ok")
       => utterances' = utterances]_vars

\* C2: whenever Dashboard is mounted with a falsy sessionId, the step leaves
\* the utterance state empty and issues no retrieval.
C2_FalsySessionLoadsEmpty ==
  [][(RendersDashboard(session') /\ session'.session_id \in FalsyIds /\ ~crashed')
       => /\ utterances' = EmptyArray
          /\ nextId' = nextId
          /\ {r.id : r \in inflight'} \subseteq {r.id : r \in inflight}]_vars

\* C2 witness: Dashboard went from a session whose retrieval is still pending
\* to a falsy sessionId; the state is empty and the pending retrieval is
\* cancelled.
C2_Witness ==
  /\ DashboardMounted
  /\ session.session_id \in FalsyIds
  /\ utterances = EmptyArray
  /\ \E r \in inflight : r.inst = instance /\ r.ignore /\ r.id = nextId

\* The outcomes C3 names: transport failure, non-OK status, unparseable body,
\* body without the utterances field (a JSON null body has none either).
IsRetrievalFailure(o) ==
  \/ o.transport \in {"reject", "notok"}
  \/ o.body \in {"unparseable", "null", "nofield"}

\* C3: a current retrieval that ends in a failure commits the empty sequence,
\* the timeline shows NoData and no rejection is left unhandled.  (Stated for
\* the responses whose utterances field, if any, is a well-formed array.)
C3_FailureCommitsEmpty ==
  [][(/\ Settles
      /\ settled'.current
      /\ IsRetrievalFailure(settled'.outcome)
      /\ settled'.outcome.val.kind \in {"falsy", "array"})
       => /\ utterances' = EmptyArray
          /\ view'.state = "NoData"
          /\ ~unhandled']_vars

\* C4: a current response whose utterances field is a truthy value that is
\* not a sequence of records commits the empty sequence and the timeline
\* shows NoData.
C4_MalformedFieldIsEmpty ==
  [][(/\ Settles
      /\ settled'.current
      /\ settled'.outcome.transport = "ok"
      /\ settled'.outcome.body = "field"
      /\ settled'.outcome.val.kind \in MalformedKinds)
       => /\ utterances' = EmptyArray
          /\ view'.state = "NoData"
          /\ ~crashed']_vars

\* C5: the utterance state held by a mounted Dashboard is empty or the data
\* returned for its current sessionId.  (Stated for the states whose last
\* response, if any, had an OK status.)
C5_StateIsOfCurrentSession ==
  (DashboardMounted /\ settled.outcome.transport \in {"none", "ok"})
    => (utterances = EmptyArray \/ utterances.sid = session.session_id)

\* C6: the layout state is chosen by first match: empty input gives NoData, a
\* non-empty input with no ohcr key gives NoSequences, any other input gives
\* Rendered with one segment per utterance.
C6_StateByFirstMatch ==
  Committed =>
    /\ (Len(utterances.items) = 0) => view.state = "NoData"
    /\ (Len(utterances.items) > 0 /\ \A i \in 1..Len(utterances.items) :
                                        utterances.items[i].ohcr = None)
         => view.state = "NoSequences"
    /\ (\E i \in 1..Len(utterances.items) : utterances.items[i].ohcr # None)
         => /\ view.state = "Rendered"
            /\ Len(view.segments) = Len(utterances.items)

\* C7: for a sequence with at least one element and one ohcr-bearing element,
\* every derived segment has widthPercent >= 0.8.
C7_WidthAtLeastFloor ==
  (/\ Committed
   /\ Len(utterances.items) > 0
   /\ \E i \in 1..Len(utterances.items) : utterances.items[i].ohcr # None)
    => \A i \in 1..Len(view.segments) : RatLeq(Rat(8, 10), view.segments[i].width)

\* C7 witness: a rendered layout with a segment of raw width zero or less
\* (t_end <= t_start) beside one of positive width.
C7_Witness ==
  /\ Committed
  /\ view.state = "Rendered"
  /\ \E i, j \in 1..Len(view.segments) :
       /\ utterances.items[i].t_end[1] < utterances.items[i].t_start[1]
       /\ RatEq(view.segments[i].width, Rat(8, 10))
       /\ ~RatLeq(view.segments[j].width, Rat(8, 10))

\* C8: in the Rendered state an utterance whose ohcr is outside {O,H,C,R}
\* gets the class bucket "unknown", the one an utterance without ohcr gets.
C8_UnknownCodeIsGrey ==
  (Committed /\ view.state = "Rendered") =>
    \A i \in 1..Len(view.segments) :
      (utterances.items[i].ohcr = None \/ utterances.items[i].ohcr[1] \notin KnownCodes)
        => view.segments[i].cls = "unknown"

\* C9: a sequence in which some record lacks t_start, t_end or ohcr is laid
\* out in one of the three states without raising.
C9_MissingFieldNeverRaises ==
  (/\ Committed
   /\ \E i \in 1..Len(utterances.items) :
        \/ utterances.items[i].t_start = None
        \/ utterances.items[i].t_end = None
        \/ utterances.items[i].ohcr = None)
    => /\ view.state \in {"NoData", "NoSequences", "Rendered"}
       /\ view.error = ""
       /\ ~crashed

IndexPermutations(n) == {p \in [1..n -> 1..n] : \A i, j \in 1..n : p[i] = p[j] => i = j}

\* C10: the layout of any permutation of the sequence is in the same state
\* and gives each utterance the same leftPercent, widthPercent and code.
C10_PermutationInvariant ==
  Committed =>
    \A p \in IndexPermutations(Len(utterances.items)) :
      LET other == Timeline([utterances EXCEPT
                               !.items = [i \in 1..Len(utterances.items) |->
                                            utterances.items[p[i]]]])
      IN  /\ other.state = view.state
          /\ Len(other.segments) = Len(view.segments)
          /\ \A i \in 1..Len(other.segments) :
               /\ RatEq(other.segments[i].left, view.segments[p[i]].left)
               /\ RatEq(other.segments[i].width, view.segments[p[i]].width)
               /\ other.segments[i].cls = view.segments[p[i]].cls
               /\ other.segments[i].title[1] = view.segments[p[i]].title[1]

\* C10 witness: a rendered layout of two utterances, the later-starting one
\* first, so the global start is not the first utterance's.
C10_Witness ==
  /\ Committed
  /\ view.state = "Rendered"
  /\ Len(utterances.items) >= 2
  /\ utterances.items[1].t_start[1] > utterances.items[2].t_start[1]
  /\ ~RatEq(view.segments[1].left, Rat(0, 1))

\* Every record carries both timestamps.
AllTimed == \A i \in 1..Len(utterances.items) :
              utterances.items[i].t_start # None /\ utterances.items[i].t_end # None
HasCode == \E i \in 1..Len(utterances.items) : utterances.items[i].ohcr # None

C12_SegmentsFollowInput ==
  (Committed /\ view.state = "Rendered") =>
    LET sent == settled.outcome.val.items IN
      /\ utterances.items = sent
      /\ Len(view.segments) = Len(sent)
      /\ \A i \in 1..Len(view.segments) :
           /\ view.segments[i].key[3] = sent[i].t_start[1]
           /\ view.segments[i].title[2] = toFixed1(sent[i].t_start[1])
           /\ view.segments[i].title[3] = toFixed1(sent[i].t_end[1])
           /\ view.segments[i].key[2] =
                (IF sent[i].ohcr \in {None, Some("")} THEN "?" ELSE sent[i].ohcr[1])

\* C12 witness: a rendered response of two identical records, and one whose
\* timestamps are out of order, is reachable; this one is the identical pair.
C12_Witness ==
  /\ Committed
  /\ view.state = "Rendered"
  /\ Len(settled.outcome.val.items) = 2
  /\ settled.outcome.val.items[1] = settled.outcome.val.items[2]
  /\ Len(view.segments) = 2

\* C15: in a Rendered layout every utterance with t_end < t_start has
\* widthPercent exactly 0.8.
C15_NegativeWidthIsFloor ==
  (Committed /\ view.state = "Rendered") =>
    \A i \in 1..Len(view.segments) :
      utterances.items[i].t_end[1] < utterances.items[i].t_start[1]
        => view.segments[i].width.num * 10 = 8 * view.segments[i].width.den

\* C15 witness: a rendered utterance ending a full second before it starts.
C15_Witness ==
  /\ Committed
  /\ view.state = "Rendered"
  /\ \E i \in 1..Len(view.segments) :
       /\ utterances.items[i].t_start[1] - utterances.items[i].t_end[1] >= TimeScale
       /\ RatEq(view.segments[i].width, Rat(8, 10))

\* C14: a retrieval that settles while it is the current one causes exactly
\* one write, a stale one causes none, and no other step writes on behalf of
\* a retrieval; so each retrieval causes at most one write.
C14_OneWritePerAcceptedResolution ==
  [][/\ Settles =>
          /\ writes[settled'.id] = 0
          /\ writes' = [writes EXCEPT
                          ![settled'.id] = IF settled'.current THEN 1 ELSE 0]
     /\ ~Settles => writes' = writes]_vars

\* C14 witness: a stale retrieval has settled with data and written nothing,
\* after another retrieval wrote once.
C14_Witness ==
  /\ settled.id # 0
  /\ ~settled.current
  /\ settled.outcome.transport = "ok"
  /\ settled.outcome.val.kind = "array"
  /\ Len(settled.outcome.val.items) > 0
  /\ writes[settled.id] = 0
  /\ \E j \in 1..MaxUploads : writes[j] = 1

\* C16: a response that arrives after its Dashboard instance was torn down
\* writes nothing, and the utterance state is written on behalf of a
\* retrieval only in the step in which that retrieval settles.
C16_TeardownCancels ==
  [][/\ (Settles /\ settled'.torn) =>
          /\ writes' = writes
          /\ utterances' = utterances
          /\ view' = view
     /\ (writes' # writes) => Settles]_vars

\* C16 witness: Dashboard is unmounted and the retrieval it had issued has
\* answered with data since, without a write.
C16_Witness ==
  /\ ~RendersDashboard(session)
  /\ settled.id = nextId
  /\ settled.torn
  /\ settled.outcome.transport = "ok"
  /\ settled.outcome.val.kind = "array"
  /\ Len(settled.outcome.val.items) > 0
  /\ writes[settled.id] = 0
  /\ utterances = EmptyArray

\* What C17 expects a response to leave in the state: the empty sequence on
\* a failure (in the sense of C3) or a missing (or falsy) field, and the
\* response's utterances otherwise.
ExpectedState(o) ==
  IF IsRetrievalFailure(o) \/ o.val.kind = "falsy"
    THEN EmptyArray
    ELSE o.val
CurrentPending(id) == \E r \in inflight : r.id = id /\ IsCurrent(r)

\* C17: a current retrieval in flight is eventually settled while current,
\* unless the sessionId changes or the view is torn down first; when it
\* settles the state becomes the response's utterances (empty on failure or
\* missing field); and the state then changes only when a current retrieval
\* settles or the session changes.
C17_CurrentRetrievalCommits ==
  /\ [][(Settles /\ settled'.current)
          => utterances' = ExpectedState(settled'.outcome)]_vars
  /\ [][(utterances' # utterances)
          => ((Settles /\ settled'.current) \/ session' # session)]_vars
  /\ \A id \in 1..MaxUploads :
       CurrentPending(id) ~>
         \/ settled.id = id /\ settled.current
         \/ ~DashboardMounted
         \/ nextId # id
         \/ \E r \in inflight : r.id = id /\ ~IsCurrent(r)

\* An upload() invocation ends: its request is answered, or it returns at
\* once because no file is chosen.
UploadEnds == uploads' < uploads \/ (attempts' > attempts /\ uploads' = uploads)

\* C18: at most one upload request is in flight; while App is on screen,
\* loading is true exactly when a request is in flight; and loading is false
\* after every upload attempt ends (success, failure, or no file chosen).
C18_LoadingTracksUpload ==
  /\ [](uploads \in {0, 1})
  /\ [](~crashed => (loading <=> uploads = 1))
  /\ [][(UploadEnds /\ ~crashed) => ~loading']_vars

\* C18 witness: a second upload is in flight after a first one ended, the
\* button disabled by loading.
C18_Witness ==
  /\ ~crashed
  /\ loading
  /\ ButtonDisabled
  /\ uploads = 1
  /\ lastUpload.result # "none"
  /\ attempts < MaxUploads

FailedUpload(o) == o.result \in {"reject", "notok", "badjson"}

\* C19: while App is on screen, an upload that fails (transport error, non-OK
\* response, unparseable body) leaves session unchanged and sets a non-empty
\* error; starting an upload with a file chosen clears the error; and a
\* successful upload leaves the error empty and session the new response.
C19_UploadOutcome ==
  [][~crashed =>
       /\ (uploads' < uploads /\ FailedUpload(lastUpload'))
            => (session' = session /\ error' # "")
       /\ (uploads' > uploads) => error' = ""
       /\ (uploads' < uploads /\ lastUpload'.result = "data")
            => (error' = "" /\ session' = lastUpload'.data)]_vars

\* C19 witness: an upload answered non-OK with an empty body after a
\* successful one: the stored session is kept and the error is set.
C19_Witness ==
  /\ ~crashed
  /\ lastUpload.result = "notok"
  /\ lastUpload.message = ""
  /\ error # ""
  /\ RendersDashboard(session)
  /\ uploads = 0

\* The numerals that are x (counted in 1/100) rounded to d decimals: the
\* sign of x, then a nearest multiple of 10^-d of its magnitude.
Rounded(x, d) ==
  LET step == Pow10(2 - d)
  IN  {(IF x < 0 THEN "-" ELSE "") \o Digits(n, d) :
         n \in {k \in 0..(Abs(x) \div step + 1) : 2 * Abs(Abs(x) - k * step) <= step}}
IsPercent(v, ratio, d) == \E t \in Rounded(ratio, d) : v = t \o "%"

\* C13: the metric tiles are six (label, value) pairs in the fixed order;
\* KC Score and OHCR Coverage are ratio x 100 rounded to one decimal with a %
\* suffix, Student Talk and Level-5 Presence are ratio x 100 rounded to zero
\* decimals with a % suffix, the depths are passed through; nothing is
\* clamped; and the documented example gives the documented tiles.
C13_MetricsFormat ==
  (DashboardMounted /\ data # None /\ metrics # <<>>) =>
    LET m == data[1]
    IN  /\ Len(metrics) = 6
        /\ [i \in 1..6 |-> metrics[i].label] =
             <<"KC Score", "OHCR Coverage", "Avg HC-Depth", "Student Talk",
               "Level-5 Presence", "Max HC-Depth">>
        /\ IsPercent(metrics[1].value, m.kc_score, 1)
        /\ IsPercent(metrics[2].value, m.ohcr_index, 1)
        /\ metrics[3].value = m.avg_hc_depth
        /\ IsPercent(metrics[4].value, m.student_talk_pct, 0)
        /\ IsPercent(metrics[5].value, m.level5_pct, 0)
        /\ metrics[6].value = m.max_hc_depth
        /\ (m.kc_score = 8730) => metrics[1].value = "87.3%"
        /\ (m.ohcr_index = 5000) => metrics[2].value = "50.0%"
        /\ (m.student_talk_pct = 6670) => metrics[4].value = "67%"
        /\ (m.level5_pct = 1000) => metrics[5].value = "10%"

\* C13 witness: a summary with a ratio above 1 and a negative one, formatted
\* without clamping.
C13_Witness ==
  /\ DashboardMounted
  /\ data # None
  /\ data[1].kc_score = 12345
  /\ data[1].level5_pct = -250
  /\ data[1].student_talk_pct = 6670
  /\ Len(metrics) = 6
  /\ metrics[1].value = "123.5%"
  /\ metrics[4].value = "67%"
  /\ metrics[5].value \in {"-2%", "-3%"}

====
